---------------------------- MODULE Spec2Model ----------------------------
(***************************************************************************)
(* Model of sc_unit_agg.py: the script loads "Sales Journal" spreadsheets  *)
(* (import_excel_files), filters and totals the G/H/I unit rows            *)
(* (filter_units) and writes one sheet per label                           *)
(* (write_unit_aggregation_report).                                        *)
(*                                                                         *)
(* Text is modelled as a sequence of one-character strings, so that        *)
(* startswith / endswith / lower / slicing / regular-expression matching   *)
(* are computed and not assumed.  A Python dict is modelled as a sequence  *)
(* of <<key, value>> pairs with distinct keys (insertion ordered).         *)
(***************************************************************************)
EXTENDS Integers, Sequences, FiniteSets, TLC

(* ------------------------------ bounds -------------------------------- *)
\* largest number of entries in the input directory
MaxFiles == 2
\* largest number of data rows of a Raw Table in SpecFilter
MaxRows == 2
\* longest generated text between prefix and extension in SpecLabel
MaxMid == 6

(* ------------------------- program constants -------------------------- *)
\* df.shape[1] < 6
MinColumns == 6
\* str(sheet_name)[:31]
SheetNameMax == 31
\* df.iloc[:, 1] (0-based 1 is position 2 of a 1-based sequence)
CategoryPos == 2
\* df.columns[5]
ValuePos == 6
\* \d{4}
YearDigits == 4

(* ------------------------------- text --------------------------------- *)
UpperLetters ==
    <<"A","B","C","D","E","F","G","H","I","J","K","L","M",
      "N","O","P","Q","R","S","T","U","V","W","X","Y","Z">>

LowerLetters ==
    <<"a","b","c","d","e","f","g","h","i","j","k","l","m",
      "n","o","p","q","r","s","t","u","v","w","x","y","z">>

Range(s) == {s[i] : i \in DOMAIN s}

UpperSet == Range(UpperLetters)

LetterSet == Range(UpperLetters) \cup Range(LowerLetters)

DigitSet == {"0","1","2","3","4","5","6","7","8","9"}

\* [A-Za-z]
IsLetter(c) == c \in LetterSet

\* \d
IsDigit(c) == c \in DigitSet

LowerOf ==
    [c \in UpperSet |->
        LowerLetters[CHOOSE i \in DOMAIN UpperLetters : UpperLetters[i] = c]]

LowerChar(c) == IF c \in UpperSet THEN LowerOf[c] ELSE c

\* str.lower()
Lower(s) == [i \in DOMAIN s |-> LowerChar(s[i])]

\* str.startswith(p)
StartsWith(s, p) == Len(s) >= Len(p) /\ SubSeq(s, 1, Len(p)) = p

\* str.endswith(p)
EndsWith(s, p) ==
    Len(s) >= Len(p) /\ SubSeq(s, Len(s) - Len(p) + 1, Len(s)) = p

\* s[:n]
Take(s, n) == SubSeq(s, 1, IF Len(s) < n THEN Len(s) ELSE n)

\* "Sales Journal for "
Prefix ==
    <<"S","a","l","e","s"," ","J","o","u","r","n","a","l"," ","f","o","r"," ">>

ExtXls == <<".","x","l","s">>

ExtXlsx == <<".","x","l","s","x">>

(* --------------------------- the loader ------------------------------- *)
\* is_valid_file(fname)
is_valid_file(fname) ==
    /\ StartsWith(fname, Prefix)
    /\ (EndsWith(Lower(fname), ExtXls) \/ EndsWith(Lower(fname), ExtXlsx))

\* the greedy [A-Za-z]+ : number of letters of f from position j on
RECURSIVE LetterRun(_, _)
LetterRun(f, j) ==
    IF j <= Len(f) /\ IsLetter(f[j]) THEN 1 + LetterRun(f, j + 1) ELSE 0

\* the pattern "Sales Journal for ([A-Za-z]+ \d{4})" matches f at position i.
\* Letters are no spaces, so giving back letters never helps: the run is maximal.
MatchAt(f, i) ==
    LET j == i + Len(Prefix)
        n == LetterRun(f, j)
    IN  /\ i + Len(Prefix) - 1 <= Len(f)
        /\ SubSeq(f, i, i + Len(Prefix) - 1) = Prefix
        /\ n >= 1
        /\ j + n + YearDigits <= Len(f)
        /\ f[j + n] = " "
        /\ \A k \in 1..YearDigits : IsDigit(f[j + n + k])

\* match.group(1) of the match at position i
Group1(f, i) ==
    LET j == i + Len(Prefix)
    IN  SubSeq(f, j, j + LetterRun(f, j) + YearDigits)

\* an anchored match (re.match) in place of re.search
extract_month_year_anchored(fname) ==
    IF MatchAt(fname, 1) THEN Group1(fname, 1) ELSE fname

\* extract_month_year(fname): re.search takes the leftmost match
extract_month_year(fname) ==
    LET hits == {i \in 1..Len(fname) : MatchAt(fname, i)}
    IN  IF hits # {}
        THEN Group1(fname, CHOOSE i \in hits : \A k \in hits : i <= k)
        ELSE fname

(* ------------------------------ dicts --------------------------------- *)
DictKeys(d) == {d[i][1] : i \in DOMAIN d}

DictGet(d, k) == d[CHOOSE i \in DOMAIN d : d[i][1] = k][2]

\* d[k] = v : an existing key keeps its place and loses its value
DictSet(d, k, v) ==
    IF k \in DictKeys(d)
    THEN [i \in DOMAIN d |-> IF d[i][1] = k THEN <<k, v>> ELSE d[i]]
    ELSE Append(d, <<k, v>>)

(* --------------------------- table cells ------------------------------ *)
\* A cell read by pd.read_excel: missing (NaN), a text, or a number.  Numbers
\* are fixed-point, counted in hundredths (12.50 is 1250); read_excel turns an
\* empty cell into NaN, so no text cell is empty.
Null == [k |-> "null", s |-> <<>>, v |-> 0]

Text(s) == [k |-> "str", s |-> s, v |-> 0]

Num(n) == [k |-> "num", s |-> <<>>, v |-> n]

\* a float: a finite number (hundredths), nan or inf
FNum(n) == [k |-> "num", v |-> n]

FNaN == [k |-> "nan", v |-> 0]

FInf == [k |-> "inf", v |-> 0]

\* float() raised ValueError
FErr == [k |-> "err", v |-> 0]

Digits == <<"0","1","2","3","4","5","6","7","8","9">>

DigitVal(c) == (CHOOSE i \in DOMAIN Digits : Digits[i] = c) - 1

RECURSIVE NatStr(_)
NatStr(n) ==
    IF n < 10 THEN <<Digits[n + 1]>>
    ELSE NatStr(n \div 10) \o <<Digits[(n % 10) + 1]>>

Abs(n) == IF n < 0 THEN -n ELSE n

\* str(x) of a float: sign, integer part, point, shortest fraction
FloatStr(n) ==
    LET a == Abs(n)
        f == a % 100
    IN  (IF n < 0 THEN <<"-">> ELSE <<>>)
        \o NatStr(a \div 100) \o <<".">>
        \o (IF f % 10 = 0 THEN <<Digits[(f \div 10) + 1]>>
            ELSE <<Digits[(f \div 10) + 1], Digits[(f % 10) + 1]>>)

\* .astype(str) of one cell
AsStr(cell) ==
    CASE cell.k = "null" -> <<"n","a","n">>
      [] cell.k = "str" -> cell.s
      [] cell.k = "num" -> FloatStr(cell.v)

\* .str.contains(r'[GHI]', na=False)
ContainsGHI(s) == \E i \in DOMAIN s : s[i] \in {"G", "H", "I"}

\* .notna()
NotNa(cell) == cell.k # "null"

\* .str.replace(r'[\$,()]', '', regex=True)
IsStripped(c) == c \in {"$", ",", "(", ")"}

KeepChar(c) == ~IsStripped(c)

StripMoney(s) == SelectSeq(s, KeepChar)

RECURSIVE LStrip(_)
LStrip(s) == IF s # <<>> /\ Head(s) = " " THEN LStrip(Tail(s)) ELSE s

RECURSIVE RStrip(_)
RStrip(s) ==
    IF s # <<>> /\ s[Len(s)] = " " THEN RStrip(SubSeq(s, 1, Len(s) - 1)) ELSE s

RECURSIVE NatVal(_)
NatVal(s) ==
    IF s = <<>> THEN 0
    ELSE 10 * NatVal(SubSeq(s, 1, Len(s) - 1)) + DigitVal(s[Len(s)])

AllDigits(s) == \A i \in DOMAIN s : IsDigit(s[i])

\* the fraction digits as hundredths (digits past the second are cut)
FracVal(s) ==
    CASE Len(s) = 0 -> 0
      [] Len(s) = 1 -> 10 * DigitVal(s[1])
      [] OTHER -> 10 * DigitVal(s[1]) + DigitVal(s[2])

\* the unsigned decimal literal digits[.digits] with at least one digit
ParseDecimal(s) ==
    LET dots == {i \in DOMAIN s : s[i] = "."}
        p == IF dots = {} THEN Len(s) + 1 ELSE CHOOSE i \in dots : TRUE
        ip == SubSeq(s, 1, p - 1)
        fp == SubSeq(s, p + 1, Len(s))
    IN  IF /\ Cardinality(dots) <= 1
           /\ AllDigits(ip) /\ AllDigits(fp)
           /\ Len(ip) + Len(fp) >= 1
        THEN FNum(100 * NatVal(ip) + FracVal(fp))
        ELSE FErr

\* float(s) on the texts of the model's alphabet: surrounding blanks, a sign,
\* then "nan", "inf", "infinity" (any case) or a decimal literal
ParseFloat(s0) ==
    LET s == RStrip(LStrip(s0))
        signed == s # <<>> /\ s[1] \in {"+", "-"}
        neg == s # <<>> /\ s[1] = "-"
        body == IF signed THEN Tail(s) ELSE s
        low == Lower(body)
        d == ParseDecimal(body)
    IN  CASE low = <<"n","a","n">> -> FNaN
          [] low \in {<<"i","n","f">>, <<"i","n","f","i","n","i","t","y">>} -> FInf
          [] d.k = "num" -> FNum(IF neg THEN -d.v ELSE d.v)
          [] OTHER -> FErr

\* .abs()
FAbs(x) == IF x.k = "num" THEN FNum(Abs(x.v)) ELSE x

\* x != 0
NonZero(x) == ~(x.k = "num" /\ x.v = 0)

\* the cleaning of one value cell, lines 91-97
CleanValue(cell) == FAbs(ParseFloat(StripMoney(AsStr(cell))))

\* Series.sum(): NaN is skipped, inf absorbs
RECURSIVE SumNums(_)
SumNums(vs) ==
    IF vs = <<>> THEN 0
    ELSE (IF Head(vs).k = "num" THEN Head(vs).v ELSE 0) + SumNums(Tail(vs))

FSum(vs) ==
    IF \E i \in DOMAIN vs : vs[i].k = "inf" THEN FInf ELSE FNum(SumNums(vs))

(* ----------------------- the filter/aggregator ------------------------ *)
\* "no units of conataining G, H, or I" (the text of lines 81, 107 and 109)
PlaceholderText ==
    <<"n","o"," ","u","n","i","t","s"," ","o","f"," ","c","o","n","a","t","a",
      "i","n","i","n","g"," ","G",","," ","H",","," ","o","r"," ","I">>

\* "Total Rent"
TotalText == <<"T","o","t","a","l"," ","R","e","n","t">>

\* pd.DataFrame([[...]]) without columns= gets the default headers 0 and 1
DefaultColumns == <<"0", "1">>

\* pd.DataFrame([["no units of conataining G, H, or I", 0]], columns=cols)
Placeholder(cols) ==
    [columns |-> cols, rows |-> << <<Text(PlaceholderText), FNum(0)>> >>]

\* a mask that ignores case
RowSelected_nocase(row) ==
    \E i \in DOMAIN AsStr(row[CategoryPos]) :
        LowerChar(AsStr(row[CategoryPos])[i]) \in {"g", "h", "i"}

\* mask: col2 = df.iloc[:, 1].astype(str); col2.str.contains(r'[GHI]')
RowSelected(row) == ContainsGHI(AsStr(row[CategoryPos]))

\* filtered_df[df.columns[5]].notna()
RowNotNa(row) == NotNa(row[ValuePos])

\* df.loc[mask, [df.columns[1], df.columns[5]]] with the value column cleaned
CleanRow(row) == <<row[CategoryPos], CleanValue(row[ValuePos])>>

\* filtered_df[df.columns[5]] != 0
RowNonZero(frow) == NonZero(frow[2])

Values(frows) == [i \in DOMAIN frows |-> frows[i][2]]

\* rent_sum = filtered_df[df.columns[5]].sum(); the row ["Total Rent", rent_sum]
SumRow(frows) == <<Text(TotalText), FSum(Values(frows))>>

\* the body of the loop of filter_units for one DataFrame (lines 80-109):
\* [raised |-> astype(float) raised ValueError, table |-> filtered_dict[key]]
FilterTable(df) ==
    IF Len(df.columns) < MinColumns
    THEN [raised |-> FALSE, table |-> Placeholder(DefaultColumns)]
    ELSE
      LET cols == <<df.columns[CategoryPos], df.columns[ValuePos]>>
          masked == SelectSeq(df.rows, RowSelected)
          notna == SelectSeq(masked, RowNotNa)
          cleaned == [i \in DOMAIN notna |-> CleanRow(notna[i])]
          nonzero == SelectSeq(cleaned, RowNonZero)
      IN  IF masked = <<>>
          THEN [raised |-> FALSE, table |-> Placeholder(cols)]
          ELSE IF \E i \in DOMAIN cleaned : cleaned[i][2].k = "err"
          THEN [raised |-> TRUE, table |-> [columns |-> cols, rows |-> <<>>]]
          ELSE IF nonzero # <<>>
          THEN [raised |-> FALSE,
                table |-> [columns |-> cols,
                           rows |-> Append(nonzero, SumRow(nonzero))]]
          ELSE [raised |-> FALSE, table |-> Placeholder(cols)]

\* for key, df in data_dict.items(): ... ; the first ValueError leaves the loop
RECURSIVE FilterLoop(_, _)
FilterLoop(todo, acc) ==
    IF todo = <<>> THEN [raised |-> FALSE, value |-> acc]
    ELSE LET r == FilterTable(Head(todo)[2])
         IN  IF r.raised THEN [raised |-> TRUE, value |-> <<>>]
             ELSE FilterLoop(Tail(todo), DictSet(acc, Head(todo)[1], r.table))

\* a loop that skips a DataFrame whose values do not parse
RECURSIVE FilterLoop_skip(_, _)
FilterLoop_skip(todo, acc) ==
    IF todo = <<>> THEN [raised |-> FALSE, value |-> acc]
    ELSE LET r == FilterTable(Head(todo)[2])
         IN  IF r.raised THEN FilterLoop_skip(Tail(todo), acc)
             ELSE FilterLoop_skip(Tail(todo),
                                  DictSet(acc, Head(todo)[1], r.table))

\* a loop that keeps filtered_df across entries: each entry's rows follow the
\* rows already collected
RECURSIVE FilterLoop_shared(_, _)
FilterLoop_shared(todo, acc) ==
    IF todo = <<>> THEN [raised |-> FALSE, value |-> acc]
    ELSE LET r == FilterTable(Head(todo)[2])
             prev == IF acc = <<>> THEN <<>> ELSE acc[Len(acc)][2].rows
         IN  IF r.raised THEN [raised |-> TRUE, value |-> <<>>]
             ELSE FilterLoop_shared(Tail(todo),
                    DictSet(acc, Head(todo)[1],
                            [r.table EXCEPT !.rows = prev \o @]))

\* filter_units catching the ValueError per entry
filter_units_skip(d) == FilterLoop_skip(d, <<>>)

\* filter_units with filtered_df shared by the entries
filter_units_shared(d) == FilterLoop_shared(d, <<>>)

\* filter_units(data_dict)
filter_units(d) == FilterLoop(d, <<>>)

(* ----------------------------- the writer ---------------------------- *)
\* df.to_excel(writer, sheet_name=name, index=False): the header row and the
\* rows of df go to the sheet called name.  A sheet of that name already in
\* the workbook is written into again: the new cells replace the old ones
\* from the top, the old rows below them stay.
ToExcel(sheets, name, df) ==
    IF \E i \in DOMAIN sheets : sheets[i].name = name
    THEN [i \in DOMAIN sheets |->
            IF sheets[i].name = name
            THEN [name |-> name, columns |-> df.columns,
                  rows |-> df.rows \o SubSeq(sheets[i].rows,
                                             Len(df.rows) + 1,
                                             Len(sheets[i].rows))]
            ELSE sheets[i]]
    ELSE Append(sheets, [name |-> name, columns |-> df.columns,
                         rows |-> df.rows])

\* safe_sheet_name = str(sheet_name)[:31]
SafeSheetName(sheet_name) == Take(sheet_name, SheetNameMax)

\* for sheet_name, df in filtered_dict.items(): df.to_excel(...)
RECURSIVE WriteSheets(_, _)
WriteSheets(todo, sheets) ==
    IF todo = <<>> THEN sheets
    ELSE WriteSheets(Tail(todo),
                     ToExcel(sheets, SafeSheetName(Head(todo)[1]), Head(todo)[2]))

NoErr == [type |-> "", msg |-> ""]

MsgNoTk ==
    "tkinter is required for file dialog. Please install it or provide a path."

MsgNotSaved == "No file selected. Report not saved."

MsgWritten == "Report written to "

\* the file at the destination: none, one left by an earlier run, a report
NoFile == [tag |-> "absent", sheets |-> <<>>]

OldFile == [tag |-> "old", sheets |-> <<>>]

\* a writer that saves the report although nothing was chosen
write_report_always(fd, tk, choice, before) ==
    IF ~tk
    THEN [raised |-> TRUE, err |-> [type |-> "ImportError", msg |-> MsgNoTk],
          printed |-> <<>>, disk |-> before]
    ELSE [raised |-> FALSE, err |-> NoErr,
          printed |-> << <<MsgWritten, choice>> >>,
          disk |-> [tag |-> "report", sheets |-> WriteSheets(fd, <<>>)]]

\* write_unit_aggregation_report(filtered_dict); tk: tkinter can be imported,
\* choice: what asksaveasfilename returned, before: the file at the destination
write_unit_aggregation_report(fd, tk, choice, before) ==
    IF ~tk
    THEN [raised |-> TRUE, err |-> [type |-> "ImportError", msg |-> MsgNoTk],
          printed |-> <<>>, disk |-> before]
    ELSE IF choice = ""
    THEN [raised |-> FALSE, err |-> NoErr,
          printed |-> << <<MsgNotSaved, "">> >>, disk |-> before]
    ELSE [raised |-> FALSE, err |-> NoErr,
          printed |-> << <<MsgWritten, choice>> >>,
          disk |-> [tag |-> "report", sheets |-> WriteSheets(fd, <<>>)]]

(* ------------------------- paths and the loader ----------------------- *)
\* a path: the directory, a file of it (os.path.basename is name), a path
\* that is neither (os.path.isdir and os.path.isfile are both false), or None
NoPath == [kind |-> "none", name |-> <<>>]

DirPath == [kind |-> "dir", name |-> <<>>]

FilePath(n) == [kind |-> "file", name |-> n]

MsgNoSelection == "No file or folder selected."

MsgInvalidPath ==
    "Path must be an Excel file or a directory containing Excel files, and file(s) must start with Sales Journal for ."

MsgNoData == "No valid Excel files found starting with Sales Journal for ."

\* lines 15-35: the path given, or the one picked in the dialogs
ResolvePath(arg, tk, pick_file, pick_dir) ==
    IF arg # NoPath
    THEN [raised |-> FALSE, err |-> NoErr, path |-> arg]
    ELSE IF ~tk
    THEN [raised |-> TRUE, err |-> [type |-> "ImportError", msg |-> MsgNoTk],
          path |-> NoPath]
    ELSE LET picked == IF pick_file # NoPath THEN pick_file ELSE pick_dir
         IN  IF picked = NoPath
             THEN [raised |-> TRUE,
                   err |-> [type |-> "ValueError", msg |-> MsgNoSelection],
                   path |-> NoPath]
             ELSE [raised |-> FALSE, err |-> NoErr, path |-> picked]

\* for fname in os.listdir(path): ... excel_data[key] = pd.read_excel(fpath)
RECURSIVE LoadDir(_, _, _)
LoadDir(listing, files, acc) ==
    IF listing = <<>> THEN acc
    ELSE LoadDir(Tail(listing), files,
                 IF is_valid_file(Head(listing))
                 THEN DictSet(acc, extract_month_year(Head(listing)),
                              files[Head(listing)])
                 ELSE acc)

\* a loader that skips an ineligible single file and then finds no data
LoadPath_skip(p, files, listing) ==
    LET excel_data ==
          IF p.kind = "dir" THEN LoadDir(listing, files, <<>>)
          ELSE IF p.kind = "file" /\ is_valid_file(p.name)
          THEN << <<extract_month_year(p.name), files[p.name]>> >>
          ELSE <<>>
    IN  IF p.kind \notin {"dir", "file"}
        THEN [raised |-> TRUE, value |-> <<>>,
              err |-> [type |-> "ValueError", msg |-> MsgInvalidPath]]
        ELSE IF excel_data = <<>>
        THEN [raised |-> TRUE, value |-> <<>>,
              err |-> [type |-> "ValueError", msg |-> MsgNoData]]
        ELSE [raised |-> FALSE, value |-> excel_data, err |-> NoErr]

\* lines 37-66: the directory, the single file, or ValueError
LoadPath(p, files, listing) ==
    LET excel_data ==
          IF p.kind = "dir" THEN LoadDir(listing, files, <<>>)
          ELSE << <<extract_month_year(p.name), files[p.name]>> >>
    IN  IF ~(p.kind = "dir" \/ (p.kind = "file" /\ is_valid_file(p.name)))
        THEN [raised |-> TRUE, value |-> <<>>,
              err |-> [type |-> "ValueError", msg |-> MsgInvalidPath]]
        ELSE IF excel_data = <<>>
        THEN [raised |-> TRUE, value |-> <<>>,
              err |-> [type |-> "ValueError", msg |-> MsgNoData]]
        ELSE [raised |-> FALSE, value |-> excel_data, err |-> NoErr]

\* import_excel_files(path)
import_excel_files(arg, tk, pick_file, pick_dir, files, listing) ==
    LET r == ResolvePath(arg, tk, pick_file, pick_dir)
        l == LoadPath(r.path, files, listing)
    IN  IF r.raised
        THEN [raised |-> TRUE, err |-> r.err, path |-> r.path, value |-> <<>>]
        ELSE [raised |-> l.raised, err |-> l.err, path |-> r.path,
              value |-> l.value]

\* the orders os.listdir may give the entries in
Orders(S) ==
    {o \in [1..Cardinality(S) -> S] : \A n \in S : \E i \in DOMAIN o : o[i] = n}

(* ------------------------- the inputs of a run ------------------------ *)
\* "Sales Journal for March 2024.xlsx"
NameMarchXlsx ==
    Prefix \o <<"M","a","r","c","h"," ","2","0","2","4",".","x","l","s","x">>

\* "Sales Journal for March 2024.xls"
NameMarchXls ==
    Prefix \o <<"M","a","r","c","h"," ","2","0","2","4",".","x","l","s">>

\* "Sales Journal for Quarter1 2024 east.XLSX"
NameEast ==
    Prefix \o <<"Q","u","a","r","t","e","r","1"," ","2","0","2","4"," ",
                "e","a","s","t",".","X","L","S","X">>

\* "Sales Journal for Quarter1 2024 west.xlsx"
NameWest ==
    Prefix \o <<"Q","u","a","r","t","e","r","1"," ","2","0","2","4"," ",
                "w","e","s","t",".","x","l","s","x">>

\* "Sales Journal for May 2024.csv"
NameCsv == Prefix \o <<"M","a","y"," ","2","0","2","4",".","c","s","v">>

\* "sales journal for May 2024.xlsx"
NameLowerPrefix ==
    Lower(Prefix) \o <<"M","a","y"," ","2","0","2","4",".","x","l","s","x">>

NamePool ==
    {NameMarchXlsx, NameMarchXls, NameEast, NameWest, NameCsv, NameLowerPrefix}

\* a path that does not exist, with an eligible name
MissingPath == [kind |-> "missing", name |-> NameMarchXlsx]

Filler == Text(<<"x">>)

\* a row of n cells with the category in column 1 and the value in column 5
Row(n, cat, val) ==
    SubSeq(<<Filler, cat, Filler, Filler, Filler, val, Filler>>, 1, n)

Columns(n) == SubSeq(<<"c0", "c1", "c2", "c3", "c4", "c5", "c6">>, 1, n)

CatG204 == Text(<<"G","-","2","0","4">>)

CatA101 == Text(<<"A","-","1","0","1">>)

CatLower == Text(<<"g","h">>)

CatInner == Text(<<"a","H">>)

\* "($1,250.00)"
ValParen == Text(<<"(","$","1",",","2","5","0",".","0","0",")">>)

\* "$0.00"
ValZero == Text(<<"$","0",".","0","0">>)

ValMinus == Text(<<"-","5">>)

ValWord == Text(<<"a","b","c">>)

\* "(nan)"
ValNanText == Text(<<"(","n","a","n",")">>)

ValDollar == Text(<<"$">>)

CatPool == {CatG204, CatA101, CatLower, CatInner, Null}

ValPool ==
    {Null, ValParen, ValZero, ValMinus, ValWord, ValNanText, ValDollar,
     Num(-700)}

\* the Raw Tables of a run of the whole script
TableMarch ==
    [columns |-> Columns(6),
     rows |-> <<Row(6, CatG204, ValParen), Row(6, CatA101, ValMinus)>>]

TableApril ==
    [columns |-> Columns(7),
     rows |-> <<Row(7, CatInner, Num(-700)), Row(7, CatG204, ValZero),
                Row(7, CatG204, ValMinus)>>]

TableBad ==
    [columns |-> Columns(6),
     rows |-> <<Row(6, CatG204, ValMinus), Row(6, CatInner, ValWord)>>]

TableNarrow ==
    [columns |-> Columns(5), rows |-> <<Row(5, CatG204, Null)>>]

TablePool == {TableMarch, TableApril, TableBad, TableNarrow}

\* the destination picked in the save dialog
Dest == "report.xlsx"

(* ------------------------------ the state ----------------------------- *)
VARIABLES
    tkinter,        \* tkinter can be imported
    fs,             \* the directory: file name -> the table read_excel gives
    disk,           \* the file at Dest
    path_arg,       \* the argument of import_excel_files (NoPath: None)
    pc,             \* "start", "loaded", "filtered", "done", "failed"
    calls,          \* the functions of lines 150-152 called so far
    path,           \* import_excel_files: path
    data_dict,      \* line 150
    filtered_dict,  \* line 151
    err,            \* the exception that ended the run
    stdout,         \* what print() wrote
    file_path       \* write_unit_aggregation_report: file_path

vars ==
    <<tkinter, fs, disk, path_arg, pc, calls, path, data_dict, filtered_dict,
      err, stdout, file_path>>

Dirs == {S \in SUBSET NamePool : Cardinality(S) <= MaxFiles}

InitRun ==
    /\ pc = "start"
    /\ calls = <<>>
    /\ path = NoPath
    /\ data_dict = <<>>
    /\ filtered_dict = <<>>
    /\ err = NoErr
    /\ stdout = <<>>
    /\ file_path = ""

Init ==
    /\ tkinter \in BOOLEAN
    /\ fs \in UNION {[S -> TablePool] : S \in Dirs}
    /\ disk \in {NoFile, OldFile}
    /\ path_arg \in {NoPath, DirPath, MissingPath}
                    \cup {FilePath(n) : n \in DOMAIN fs}
    /\ InitRun

\* what a dialog may return: nothing (cancelled) or one of the paths; no dialog
\* is shown when a path was given
Picks(paths) == IF path_arg = NoPath THEN {NoPath} \cup paths ELSE {NoPath}

\* what os.listdir(path) may return; it is called for a directory only
Listings(p) == IF p.kind = "dir" THEN Orders(DOMAIN fs) ELSE {<<>>}

\* data_dict = import_excel_files()
Load ==
    /\ pc = "start"
    /\ \E pick_file \in Picks({FilePath(n) : n \in DOMAIN fs}),
          pick_dir \in Picks({DirPath}) :
         \E listing \in Listings(ResolvePath(path_arg, tkinter, pick_file,
                                             pick_dir).path) :
            LET r == import_excel_files(path_arg, tkinter, pick_file,
                                        pick_dir, fs, listing)
            IN  /\ path' = r.path
                /\ data_dict' = r.value
                /\ err' = r.err
                /\ pc' = IF r.raised THEN "failed" ELSE "loaded"
    /\ calls' = Append(calls, "import_excel_files")
    /\ UNCHANGED <<tkinter, fs, disk, path_arg, filtered_dict, stdout, file_path>>

\* filtered_dict = filter_units(data_dict)
Filter ==
    /\ pc = "loaded"
    /\ LET r == filter_units(data_dict)
       IN  /\ filtered_dict' = r.value
           /\ err' = IF r.raised
                     THEN [type |-> "ValueError",
                           msg |-> "could not convert string to float"]
                     ELSE NoErr
           /\ pc' = IF r.raised THEN "failed" ELSE "filtered"
    /\ calls' = Append(calls, "filter_units")
    /\ UNCHANGED <<tkinter, fs, disk, path_arg, path, data_dict, stdout, file_path>>

\* write_unit_aggregation_report(filtered_dict)
Write ==
    /\ pc = "filtered"
    /\ \E choice \in {"", Dest} :
         LET r == write_unit_aggregation_report(filtered_dict, tkinter, choice,
                                                disk)
         IN  /\ file_path' = IF tkinter THEN choice ELSE file_path
             /\ disk' = r.disk
             /\ stdout' = stdout \o r.printed
             /\ err' = r.err
             /\ pc' = IF r.raised THEN "failed" ELSE "done"
    /\ calls' = Append(calls, "write_unit_aggregation_report")
    /\ UNCHANGED <<tkinter, fs, path_arg, path, data_dict, filtered_dict>>

Next == Load \/ Filter \/ Write

Spec == Init /\ [][Next]_vars

(* ------------- filter_units on every small Raw Table ------------------ *)
RowPool(n) == {Row(n, c, v) : c \in CatPool, v \in ValPool}

\* the state after import_excel_files("Sales Journal for March 2024.xlsx"),
\* the file holding any Raw Table of 5 or of 6 columns with at most MaxRows
\* rows
InitFilter ==
    /\ tkinter = TRUE
    /\ disk = NoFile
    /\ \E n \in {MinColumns - 1, MinColumns}, k \in 0..MaxRows :
         \E r \in [1..k -> RowPool(n)] :
            data_dict = << <<extract_month_year(NameMarchXlsx),
                             [columns |-> Columns(n), rows |-> r]>> >>
    /\ fs = (NameMarchXlsx :> data_dict[1][2])
    /\ path_arg = FilePath(NameMarchXlsx)
    /\ path = FilePath(NameMarchXlsx)
    /\ pc = "loaded"
    /\ calls = <<"import_excel_files">>
    /\ filtered_dict = <<>>
    /\ err = NoErr
    /\ stdout = <<>>
    /\ file_path = ""

NextFilter == Filter

SpecFilter == InitFilter /\ [][NextFilter]_vars

(* ----------- import_excel_files on every small file name -------------- *)
MidChars == {"M", " ", "2"}

\* the script is given the path of one file, named by a prefix, a text of at
\* most MaxMid characters and an extension
InitLabel ==
    /\ tkinter = TRUE
    /\ disk = NoFile
    /\ \E pre \in {Prefix, Prefix \o Prefix, Lower(Prefix)},
          n \in 0..MaxMid,
          ext \in {ExtXlsx, <<".","X","L","S">>, <<".","c","s","v">>} :
         \E mid \in [1..n -> MidChars] :
            fs = ((pre \o mid \o ext) :> TableMarch)
    /\ path_arg \in {FilePath(n) : n \in DOMAIN fs}
    /\ InitRun

NextLabel == Load

SpecLabel == InitLabel /\ [][NextLabel]_vars

(* ======================= properties: the loader ======================= *)
\* import_excel_files has returned or raised, and nothing ran after it
AfterLoad == calls = <<"import_excel_files">>

EligibleFiles == {n \in DOMAIN fs : is_valid_file(n)}

\* f has <letters> <4 digits> right after the prefix that starts at i, the
\* letters being m >= 1 in number
FormAt(f, i, m) ==
    LET j == i + Len(Prefix)
    IN  /\ j + m + YearDigits <= Len(f)
        /\ SubSeq(f, i, j - 1) = Prefix
        /\ \A k \in j..(j + m - 1) : f[k] \in LetterSet
        /\ f[j + m] = " "
        /\ \A k \in (j + m + 1)..(j + m + YearDigits) : f[k] \in DigitSet

\* the "<Month> <Year>" of that occurrence
MonthYearAt(f, i, m) ==
    SubSeq(f, i + Len(Prefix), i + Len(Prefix) + m + YearDigits)

\* f is "Sales Journal for <Month> <Year>.<ext>" with a month of m letters
FullForm(f, m) ==
    /\ FormAt(f, 1, m)
    /\ Len(f) > Len(Prefix) + m + 1 + YearDigits
    /\ f[Len(Prefix) + m + 1 + YearDigits + 1] = "."

\* the label the loader gave the single file it was pointed at
LoadedLabel == data_dict[1][1]

\* C7 as stated: a name of the form "Sales Journal for <Month> <Year>.<ext>"
\* gets the label "<Month> <Year>", and every eligible name without
\* "<Month> <Year>" immediately after the prefix keeps its full name as label.
C7_Original ==
    (AfterLoad /\ pc = "loaded" /\ path.kind = "file") =>
        /\ \A m \in 1..Len(path.name) :
              FullForm(path.name, m) =>
                  LoadedLabel = MonthYearAt(path.name, 1, m)
        /\ (~\E m \in 1..Len(path.name) : FormAt(path.name, 1, m)) =>
              LoadedLabel = path.name

\* C7 amended: a name of the form "Sales Journal for <Month> <Year>.<ext>"
\* gets the label "<Month> <Year>"; in general the label is the
\* "<letters> <4 digits>" of the leftmost place of the name where
\* "Sales Journal for <letters> <4 digits>" occurs, which may be later than
\* the start; the label is the full name exactly when there is no such place.
C7_LeftmostOccurrence ==
    (AfterLoad /\ pc = "loaded" /\ path.kind = "file") =>
        LET f == path.name
            occ == {i \in 1..Len(f) : \E m \in 1..Len(f) : FormAt(f, i, m)}
        IN  /\ \A m \in 1..Len(f) :
                  FullForm(f, m) => LoadedLabel = MonthYearAt(f, 1, m)
            /\ occ = {} => LoadedLabel = f
            /\ \A i \in occ, m \in 1..Len(f) :
                  (FormAt(f, i, m) /\ \A k \in occ : i <= k) =>
                      LoadedLabel = MonthYearAt(f, i, m)

\* a file named "Sales Journal for <Month> <Year>.<ext>" was loaded under a
\* label shorter than its name
C7_Witness ==
    /\ AfterLoad /\ pc = "loaded" /\ path.kind = "file"
    /\ \E m \in 1..Len(path.name) : FullForm(path.name, m)
    /\ Len(LoadedLabel) < Len(path.name)

\* C2: in directory mode the returned mapping has one entry per eligible
\* file, each under its own label and holding that file's table: no table
\* is overwritten by another file's.
C2_OneEntryPerSource ==
    (AfterLoad /\ pc = "loaded" /\ path.kind = "dir") =>
        /\ Len(data_dict) = Cardinality(EligibleFiles)
        /\ \A n \in EligibleFiles :
              /\ extract_month_year(n) \in DictKeys(data_dict)
              /\ DictGet(data_dict, extract_month_year(n)) = fs[n]
        /\ \A n1, n2 \in EligibleFiles :
              n1 # n2 => extract_month_year(n1) # extract_month_year(n2)

\* the classification of C3, with what an existing ineligible single file
\* raises left open: InvalidPathError is the ValueError of line 61,
\* NoDataError the ValueError of line 64
C3_Classified(ineligibleFileMsg) ==
    (AfterLoad /\ path # NoPath) =>
        /\ pc \in {"loaded", "failed"}
        /\ pc = "loaded" => (data_dict # <<>> /\ err = NoErr)
        /\ pc = "failed" => (data_dict = <<>> /\ err.type = "ValueError")
        /\ (path.kind = "missing") =>
              (pc = "failed" /\ err.msg = MsgInvalidPath)
        /\ (path.kind = "dir" /\ EligibleFiles = {}) =>
              (pc = "failed" /\ err.msg = MsgNoData)
        /\ (path.kind = "dir" /\ EligibleFiles # {}) => pc = "loaded"
        /\ (path.kind = "file" /\ ~is_valid_file(path.name)) =>
              (pc = "failed" /\ err.msg = ineligibleFileMsg)
        /\ (path.kind = "file" /\ is_valid_file(path.name)) => pc = "loaded"

\* C3 as stated: the loader returns a non-empty mapping or fails, with
\* InvalidPathError for a path that is neither an eligible file nor a
\* directory, NoDataError for a directory without eligible entries, and
\* NoDataError for an existing single file that is not eligible.
C3_Original == C3_Classified(MsgNoData)

\* C3 amended: the loader returns a non-empty mapping or fails, with
\* InvalidPathError for a path that is neither an eligible file nor a
\* directory, an existing single file that is not eligible included, and
\* NoDataError only for a directory without eligible entries.
C3_IneligibleFileIsInvalidPath == C3_Classified(MsgInvalidPath)

\* an existing single file that is not eligible made the loader fail
C3_Witness ==
    /\ AfterLoad /\ pc = "failed"
    /\ path.kind = "file" /\ ~is_valid_file(path.name)
    /\ err.msg = MsgInvalidPath

(* ================= properties: the filter/aggregator ================== *)
\* filter_units has returned or raised, and nothing ran after it
AfterFilter == calls = <<"import_excel_files", "filter_units">>

\* the rows of a Filtered Table above its last row
DataRows(t) == SubSeq(t.rows, 1, Len(t.rows) - 1)

\* the category cell is a text with an upper-case G, H or I somewhere
CategoryMatches(row) ==
    /\ row[CategoryPos].k = "str"
    /\ \E i \in DOMAIN row[CategoryPos].s :
          row[CategoryPos].s[i] \in {"G", "H", "I"}

\* the row belongs in the Filtered Table
Member(row) ==
    /\ CategoryMatches(row)
    /\ row[ValuePos] # Null
    /\ CleanValue(row[ValuePos]) # FNum(0)

\* the row as the Filtered Table carries it
Carried(row) == <<row[CategoryPos], CleanValue(row[ValuePos])>>

\* a selected value that is no number after cleaning
Unparsable(row) ==
    /\ CategoryMatches(row)
    /\ row[ValuePos] # Null
    /\ CleanValue(row[ValuePos]) = FErr

HasUnparsable(df) ==
    /\ Len(df.columns) >= MinColumns
    /\ \E i \in DOMAIN df.rows : Unparsable(df.rows[i])

\* C1: when filter_units keeps at least one data row, the last row is
\* ("Total Rent", s) with s the sum of the cleaned values of the data rows
\* above it, and every such cleaned value is a number strictly above zero.
C1_TotalOfPositiveValues ==
    \A e \in DOMAIN filtered_dict :
        LET t == filtered_dict[e][2]
            data == DataRows(t)
        IN  (pc = "filtered" /\ Len(t.rows) >= 2) =>
                /\ \A i \in DOMAIN data :
                      data[i][2].k = "num" /\ data[i][2].v > 0
                /\ t.rows[Len(t.rows)]
                      = <<Text(TotalText), FNum(SumNums(Values(data)))>>

\* "no units of containing G, H, or I", the placeholder text as specified
SpecPlaceholderText ==
    <<"n","o"," ","u","n","i","t","s"," ","o","f"," ","c","o","n","t","a","i",
      "n","i","n","g"," ","G",","," ","H",","," ","o","r"," ","I">>

\* C4: the Filtered Table is exactly the placeholder row
\* ("no units of containing G, H, or I", 0) when the Raw Table has fewer than
\* 6 columns, when no category contains G, H or I, or when no matching row
\* survives the null drop and the zero drop; in every other case it is
\* N >= 1 data rows followed by one total row.
C4_PlaceholderCases ==
    (AfterFilter /\ Len(data_dict) = 1) =>
        LET df == data_dict[1][2]
            empty ==
              \/ Len(df.columns) < MinColumns
              \/ \A i \in DOMAIN df.rows : ~CategoryMatches(df.rows[i])
              \/ \A i \in DOMAIN df.rows : ~Member(df.rows[i])
        IN  /\ pc = "filtered"
            /\ empty =>
                  filtered_dict[1][2].rows
                      = << <<Text(SpecPlaceholderText), FNum(0)>> >>
            /\ ~empty =>
                  /\ Len(filtered_dict[1][2].rows) >= 2
                  /\ filtered_dict[1][2].rows[Len(filtered_dict[1][2].rows)][1]
                        = Text(TotalText)

\* C9: for a Raw Table of at least 6 columns the data rows of the Filtered
\* Table are, in their original order, exactly the rows whose category has an
\* upper-case G, H or I, whose value is not missing and whose cleaned value
\* is not 0, each carrying the category and the cleaned value only; a
\* selected row with a missing value is dropped and raises nothing.
C9_RowMembership ==
    (AfterFilter /\ Len(data_dict) = 1) =>
        LET df == data_dict[1][2]
            kept == SelectSeq(df.rows, Member)
        IN  Len(df.columns) >= MinColumns =>
              /\ pc = "filtered" =>
                    DataRows(filtered_dict[1][2])
                        = [i \in DOMAIN kept |-> Carried(kept[i])]
              /\ pc = "failed" => HasUnparsable(df)

\* of two rows one was kept and one, selected but without a value, dropped
C9_Witness ==
    /\ AfterFilter /\ pc = "filtered" /\ Len(data_dict) = 1
    /\ Len(data_dict[1][2].columns) >= MinColumns
    /\ Len(data_dict[1][2].rows) = 2
    /\ Len(DataRows(filtered_dict[1][2])) = 1
    /\ \E i \in 1..2 :
          /\ CategoryMatches(data_dict[1][2].rows[i])
          /\ data_dict[1][2].rows[i][ValuePos] = Null

\* C10: a completed filter_units leaves data_dict unchanged and returns the
\* same labels in the same order, each with the table that filter_units
\* gives for that entry alone.
C10_PerEntry ==
    [][(pc = "loaded" /\ pc' = "filtered") =>
          /\ data_dict' = data_dict
          /\ Len(filtered_dict') = Len(data_dict)
          /\ \A i \in DOMAIN data_dict :
                /\ filtered_dict'[i][1] = data_dict[i][1]
                /\ filtered_dict'[i][2]
                      = filter_units(<<data_dict[i]>>).value[1][2]]_vars

\* two Raw Tables were filtered in one call
C10_Witness == pc = "filtered" /\ Len(filtered_dict) >= 2

(* ================= properties: the writer and the run ================= *)
\* C5: after a write the report has one section per label, named by the
\* label's first 31 characters and holding the label's table, and the
\* section names are pairwise distinct.
C5_OneSectionPerLabel ==
    (pc = "done" /\ file_path # "") =>
        /\ disk.tag = "report"
        /\ Len(disk.sheets) = Len(filtered_dict)
        /\ \A i \in DOMAIN filtered_dict :
              /\ i \in DOMAIN disk.sheets
              /\ disk.sheets[i].name = Take(filtered_dict[i][1], SheetNameMax)
              /\ Len(disk.sheets[i].name) <= SheetNameMax
              /\ disk.sheets[i].rows = filtered_dict[i][2].rows
        /\ \A i, j \in DOMAIN disk.sheets :
              i # j => disk.sheets[i].name # disk.sheets[j].name

\* C6: when the save dialog returns nothing the writer returns without an
\* exception, leaves the file at the destination as it was and prints the
\* notice and not the confirmation; the file changes only when a destination
\* was picked, and then the confirmation naming it is printed.
C6_NoDestinationNoWrite ==
    [][(pc = "filtered" /\ pc' # "filtered") =>
          /\ (tkinter /\ file_path' = "") =>
                /\ pc' = "done" /\ err' = NoErr
                /\ disk' = disk
                /\ stdout' = Append(stdout, <<MsgNotSaved, "">>)
          /\ (disk' # disk) =>
                /\ file_path' # ""
                /\ disk'.tag = "report"
                /\ stdout' = Append(stdout, <<MsgWritten, file_path'>>)
          /\ (\E i \in DOMAIN stdout' : stdout'[i][1] = MsgWritten) =>
                file_path' # ""]_vars

\* the save dialog was cancelled and the file of an earlier run is still there
C6_Witness ==
    /\ pc = "done" /\ file_path = "" /\ disk = OldFile
    /\ stdout = << <<MsgNotSaved, "">> >>

\* C8: the three functions run in the order loader, filter, writer; when the
\* loader fails, or a Raw Table of the batch has a selected value that is no
\* number after cleaning, the run ends there with the error: the writer is
\* not called and no report is written.
C8_FailureStopsTheRun ==
    /\ \E n \in 0..3 :
          calls = SubSeq(<<"import_excel_files", "filter_units",
                           "write_unit_aggregation_report">>, 1, n)
    /\ (Len(calls) >= 1 /\ data_dict = <<>>) =>
          /\ pc = "failed" /\ err # NoErr
          /\ calls = <<"import_excel_files">>
    /\ (Len(calls) >= 2
        /\ \E e \in DOMAIN data_dict : HasUnparsable(data_dict[e][2])) =>
          /\ pc = "failed" /\ err.type = "ValueError"
          /\ calls = <<"import_excel_files", "filter_units">>
    /\ (pc = "failed" /\ Len(calls) < 3) =>
          /\ disk \in {NoFile, OldFile}
          /\ stdout = <<>>

\* a batch of two Raw Tables, one of them malformed, ended in the filter
C8_Witness ==
    /\ pc = "failed" /\ AfterFilter
    /\ Len(data_dict) >= 2
    /\ \E e \in DOMAIN data_dict : ~HasUnparsable(data_dict[e][2])
    /\ disk \in {NoFile, OldFile}

=============================================================================
